---- MODULE Spec2Model ----
(***************************************************************************)
(* Static RAM calculation of src/Script/RamCalculations.ts:                *)
(* NetscriptFileParser.parseScript, InvocationTreeBuilder.parseAll,        *)
(* findAllCalledFunctions, calculateRamCost and calculateRamUsage.         *)
(*                                                                         *)
(* Representation of JavaScript values                                     *)
(*  - An identifier is a TLA+ string.                                      *)
(*  - A string the code takes apart (a namespace, an import specifier, a   *)
(*    file name) is the sequence of its tokens: "ns.hacknet" is            *)
(*    <<"ns", "hacknet">> (split(".") is then the sequence itself),        *)
(*    "./lib.js" is <<"./", "lib", ".js">>, and "" is << >>.               *)
(*  - An AST node is a record with the fields acorn gives that node type;  *)
(*    a field the node does not have reads as undefined.                   *)
(*  - Costs are in units of 0.05 GB, so that they are integers.            *)
(***************************************************************************)
EXTENDS Integers, Sequences, FiniteSets, TLC

(***************************************************************************)
(* Bounds of the inputs.                                                   *)
(***************************************************************************)
\* statements in the body of the entry function main
MaxBody == 2
\* import declarations of the entry-point script
MaxImports == 1
\* the parseAll calls a caller makes on one InvocationTreeBuilder
MaxCalls == 2

(***************************************************************************)
(* JavaScript helpers.                                                     *)
(***************************************************************************)
\* the name read from a node that has none (undefined); no identifier looks like this
NoName == "<undefined>"
\* a node-valued field that is absent (undefined)
NoNode == [type |-> "<undefined>"]

\* node.f for a node-valued field, with the optional chaining of node?.f
NodeField(node, f) == IF f \in DOMAIN node THEN node[f] ELSE NoNode
\* node?.name
NameOf(node) == IF "name" \in DOMAIN node THEN node.name ELSE NoName
\* an identifier, as a string the code may take apart
Str(name) == IF name = "" THEN << >> ELSE <<name>>
\* a ?? b on names
Coalesce(a, b) == IF a # NoName THEN a ELSE b

\* array.slice(1)
Rest(s) == IF s = << >> THEN << >> ELSE Tail(s)
\* the sequences over S of length at most n
SeqsUpTo(S, n) == UNION {[1..k -> S] : k \in 0..n}

RECURSIVE Flatten(_)
\* array.flat(): the concatenation of a sequence of sequences
Flatten(ss) == IF ss = << >> THEN << >> ELSE Head(ss) \o Flatten(Tail(ss))

\* _.uniq / _.uniqWith(_, _.isEqual): the first occurrence of each value, in order
RECURSIVE Uniq(_)
Uniq(s) ==
  IF s = << >> THEN << >>
  ELSE LET init == Uniq(SubSeq(s, 1, Len(s) - 1))
           last == s[Len(s)]
       IN IF \E i \in 1..Len(init) : init[i] = last THEN init ELSE Append(init, last)

\* array.includes(x)
Includes(s, x) == \E i \in 1..Len(s) : s[i] = x
\* the elements of an array
Elements(s) == {s[i] : i \in 1..Len(s)}
\* array.find(p) as the index of the first match, 0 when there is none;
\* matching is the set of the elements that satisfy p
FindIndex(s, matching) ==
  IF \E i \in 1..Len(s) : s[i] \in matching
  THEN CHOOSE i \in 1..Len(s) : s[i] \in matching /\ \A j \in 1..(i - 1) : s[j] \notin matching
  ELSE 0

(***************************************************************************)
(* AST nodes, as acorn builds them.                                        *)
(***************************************************************************)
Id(n) == [type |-> "Identifier", name |-> n]
Lit == [type |-> "Literal"]
This == [type |-> "ThisExpression"]
Member(o, p) == [type |-> "MemberExpression", object |-> o, property |-> Id(p)]
Call(c, args) == [type |-> "CallExpression", callee |-> c, arguments |-> args]
New(c, args) == [type |-> "NewExpression", callee |-> c, arguments |-> args]
\* a node acorn-walk's base visitor walks child by child
Node(t, kids) == [type |-> t, children |-> kids]
ExprStmt(e) == Node("ExpressionStatement", <<e>>)
Await(e) == Node("AwaitExpression", <<e>>)
ConstDecl(init) == Node("VariableDeclaration", <<init>>)
Return(e) == Node("ReturnStatement", <<e>>)
\* () => e
Arrow(e) == Node("ArrowFunctionExpression", <<e>>)
Block(stmts) == Node("BlockStatement", stmts)
FunctionDecl(n, params, stmts) ==
  [type |-> "FunctionDeclaration", id |-> Id(n), params |-> params, body |-> Block(stmts)]
\* class n { m(...) { stmts } }
ClassDecl(n, m, stmts) ==
  [type |-> "ClassDeclaration", id |-> Id(n),
   body |-> Node("ClassBody", <<Node("MethodDefinition",
                                   <<Node("FunctionExpression", <<Block(stmts)>>)>>)>>)]
Export(decl) == Node("ExportNamedDeclaration", <<decl>>)
ImportSpecifier(imported, local) ==
  [type |-> "ImportSpecifier", imported |-> Id(imported), local |-> Id(local)]
ImportDefaultSpecifier(local) == [type |-> "ImportDefaultSpecifier", local |-> Id(local)]
ImportNamespaceSpecifier(local) == [type |-> "ImportNamespaceSpecifier", local |-> Id(local)]
ImportDecl(specifiers, path) ==
  [type |-> "ImportDeclaration", specifiers |-> specifiers, source |-> [type |-> "Literal", value |-> path]]
Program(body) == Node("Program", body)
\* source text that acorn rejects
Unparseable == [type |-> "<syntax error>"]

\* the children acorn-walk's base visitors walk, in order
Children(node) ==
  CASE node.type \in {"CallExpression", "NewExpression"} -> <<node.callee>> \o node.arguments
    [] node.type = "MemberExpression" -> <<node.object>>
    [] node.type \in {"FunctionDeclaration", "ClassDeclaration"} -> <<node.body>>
    [] "children" \in DOMAIN node -> node.children
    [] OTHER -> << >>

(***************************************************************************)
(* Errors.  RamCalculationException carries a code; the errors acorn and   *)
(* the JavaScript runtime throw (SyntaxError, TypeError) have no code      *)
(* field.                                                                  *)
(***************************************************************************)
\* RamCalculationErrorCode
SyntaxErrorCode == -1
ImportErrorCode == -2
URLImportErrorCode == -3
ErrorCodes == {SyntaxErrorCode, ImportErrorCode, URLImportErrorCode}

RamCalculationException(code) == [name |-> "RamCalculationException", code |-> code]
AcornSyntaxError == [name |-> "SyntaxError"]
TypeError == [name |-> "TypeError"]
\* the outcome of a call: a returned value or a thrown error
Returned(v) == [threw |-> FALSE, value |-> v]
Thrown(e) == [threw |-> TRUE, error |-> e]

(***************************************************************************)
(* NetscriptFileParser                                                     *)
(***************************************************************************)
DefinedFunction(name, namespace, filePath) ==
  [name |-> name, namespace |-> namespace, filePath |-> filePath]

\* WithinFunctionParseState.recordFunctionCall: the call is labelled with the file of the caller
recordFunctionCall(name, namespace, filePath) == DefinedFunction(name, namespace, filePath)

\* recordFunctionCalls reads callee.property.name of a callee that has no property
recordFunctionCallsThrows(node) ==
  LET callee == node.callee
  IN /\ NameOf(callee) = NoName
     /\ NameOf(NodeField(NodeField(callee, "object"), "object")) = NoName
     /\ "property" \notin DOMAIN callee

\* recordFunctionCalls: the function a call or new expression names, by the shape of its callee
recordFunctionCalls(node, filePath) ==
  LET callee == node.callee
      obj == NodeField(callee, "object")
  IN IF NameOf(callee) # NoName
     THEN recordFunctionCall(callee.name, << >>, filePath)
     ELSE IF NameOf(NodeField(obj, "object")) # NoName
     THEN recordFunctionCall(NameOf(callee.property),
                             <<obj.object.name, NameOf(NodeField(obj, "property"))>>, filePath)
     ELSE recordFunctionCall(NameOf(callee.property),
                             Str(Coalesce(NameOf(obj), Coalesce(NameOf(NodeField(obj, "callee")), ""))),
                             filePath)

\* recordFunctionReference: a member expression, by its property and the name of its object
recordFunctionReference(node, filePath) ==
  recordFunctionCall(NameOf(node.property), Str(Coalesce(NameOf(NodeField(node, "object")), "")), filePath)

RECURSIVE withinBlockParsing(_, _)
\* The walk of a function or class body: a call or new expression is recorded and then
\* only its callee is walked, a member expression is recorded and not walked further,
\* every other node is walked child by child.
withinBlockParsing(node, filePath) ==
  CASE node.type \in {"CallExpression", "NewExpression"} ->
         <<recordFunctionCalls(node, filePath)>> \o withinBlockParsing(node.callee, filePath)
    [] node.type = "MemberExpression" -> <<recordFunctionReference(node, filePath)>>
    [] OTHER -> LET kids == Children(node)
                IN Flatten([i \in 1..Len(kids) |-> withinBlockParsing(kids[i], filePath)])

RECURSIVE withinBlockParsingThrows(_)
\* the walk of a body meets a call whose callee makes recordFunctionCalls throw
withinBlockParsingThrows(node) ==
  CASE node.type \in {"CallExpression", "NewExpression"} ->
         recordFunctionCallsThrows(node) \/ withinBlockParsingThrows(node.callee)
    [] node.type = "MemberExpression" -> FALSE
    [] OTHER -> LET kids == Children(node)
                IN \E i \in 1..Len(kids) : withinBlockParsingThrows(kids[i])

\* parseImport with only "import * as X" taken as an import of everything
parseImportNamespaceOnly(node) ==
  LET first == IF node.specifiers = << >> THEN NoNode ELSE node.specifiers[1]
  IN IF first.type = "ImportNamespaceSpecifier"
     THEN [filePath |-> node.source.value, alias |-> first.local.name, imports |-> <<"*">>]
     ELSE [filePath |-> node.source.value,
           alias |-> "",
           imports |-> [i \in 1..Len(node.specifiers) |-> NameOf(NodeField(node.specifiers[i], "imported"))]]

\* parseImport: the ImportedModule of one import declaration
parseImport(node) ==
  LET first == IF node.specifiers = << >> THEN NoNode ELSE node.specifiers[1]
      isImportAll == "imported" \notin DOMAIN first
  IN IF isImportAll
     THEN [filePath |-> node.source.value,
           alias |-> IF first = NoNode THEN "" ELSE first.local.name,
           imports |-> <<"*">>]
     ELSE [filePath |-> node.source.value,
           alias |-> "",
           imports |-> [i \in 1..Len(node.specifiers) |-> NameOf(NodeField(node.specifiers[i], "imported"))]]

\* parseFunctionOrClass: the FunctionTreeNode of one function or class declaration
parseFunctionOrClass(node, filePath) ==
  [fn |-> DefinedFunction(node.id.name, << >>, filePath),
   calledFunctions |-> withinBlockParsing(node.body, filePath)]

RECURSIVE importedModulesOf(_)
\* the imports the top-level walk records, in source order
importedModulesOf(node) ==
  CASE node.type = "ImportDeclaration" -> <<parseImport(node)>>
    [] node.type \in {"FunctionDeclaration", "ClassDeclaration"} -> << >>
    [] OTHER -> LET kids == Children(node)
                IN Flatten([i \in 1..Len(kids) |-> importedModulesOf(kids[i])])

RECURSIVE functionTreeOf(_, _)
\* the declarations the top-level walk records, in source order
functionTreeOf(node, filePath) ==
  CASE node.type = "ImportDeclaration" -> << >>
    [] node.type \in {"FunctionDeclaration", "ClassDeclaration"} -> <<parseFunctionOrClass(node, filePath)>>
    [] OTHER -> LET kids == Children(node)
                IN Flatten([i \in 1..Len(kids) |-> functionTreeOf(kids[i], filePath)])

RECURSIVE topLevelParsingThrows(_)
\* the top-level walk meets a declaration whose body makes the walk throw
topLevelParsingThrows(node) ==
  CASE node.type = "ImportDeclaration" -> FALSE
    [] node.type \in {"FunctionDeclaration", "ClassDeclaration"} -> withinBlockParsingThrows(node.body)
    [] OTHER -> LET kids == Children(node)
                IN \E i \in 1..Len(kids) : topLevelParsingThrows(kids[i])

\* NetscriptFileParser(filePath).parseScript(code)
parseScript(code, filePath) ==
  IF code = Unparseable THEN Thrown(AcornSyntaxError)
  ELSE IF topLevelParsingThrows(code) THEN Thrown(TypeError)
  ELSE Returned([filePath |-> filePath,
                 importedModules |-> importedModulesOf(code),
                 functionTree |-> functionTreeOf(code, filePath)])


(***************************************************************************)
(* Collaborators: RamCostConstants, RamCosts, areImportsEquals and the     *)
(* player.  The cost table maps a name to a number, to a function of the   *)
(* player, or (for a sub-API) to a nested table.                           *)
(***************************************************************************)
ScriptBaseRamCost == 32
ScriptHackRamCost == 2
ScriptGrowRamCost == 3
ScriptHacknetNodesRamCost == 80
ScriptDomRamCost == 500
ScriptCorporationRamCost == 20448
ScriptStanekFragmentAt == 40
ScriptStanekWidth == 8
ScriptSleeveBaseRamCost == 81
ScriptSingularityFn1RamCost == 5

\* JavaScript values a cost can be
Num(n) == [t |-> "number", v |-> n]
Undefined == [t |-> "undefined"]
\* a cost that is a function of the player: base times the player's source-file multiplier
PlayerFn(base) == [t |-> "function", base |-> base]
Table(props) == [t |-> "object", props |-> props]
\* the string that number + object concatenates to
NotANumber == [t |-> "string"]

RamCosts ==
  Table([k \in {"hack", "grow", "print", "universityCourse", "hacknet", "stanek", "sleeve", "corporation"} |->
    CASE k = "hack" -> Num(ScriptHackRamCost)
      [] k = "grow" -> Num(ScriptGrowRamCost)
      [] k = "print" -> Num(0)
      [] k = "universityCourse" -> PlayerFn(ScriptSingularityFn1RamCost)
      [] k = "hacknet" -> Table([n \in {"purchaseNode", "numNodes"} |-> Num(0)])
      [] k = "stanek" -> Table([n \in {"get", "width"} |->
                                 IF n = "get" THEN Num(ScriptStanekFragmentAt) ELSE Num(ScriptStanekWidth)])
      [] k = "sleeve" -> Table([n \in {"getTask"} |-> Num(ScriptSleeveBaseRamCost)])
      [] k = "corporation" -> Table([n \in {"getCorporation"} |-> Num(0)])])

\* the source-file multipliers a player can have
Players == {1, 16}

\* table[key] where table is a JavaScript value: undefined when the key is absent,
\* and undefined on a number or a function
Lookup(table, key) ==
  IF table.t = "object" /\ key \in DOMAIN table.props THEN table.props[key] ELSE Undefined

\* DirectoryHelpers.areImportsEquals: equal once both end in ".js" and lose a leading "/"
areImportsEquals(f0, f1) ==
  LET withJs(f) == IF f # << >> /\ f[Len(f)] = ".js" THEN f ELSE Append(f, ".js")
      removeLeadingSlash(f) == IF f # << >> /\ f[1] = "/" THEN Tail(f) ELSE f
  IN removeLeadingSlash(withJs(f0)) = removeLeadingSlash(withJs(f1))

(***************************************************************************)
(* InvocationTreeBuilder.parseAll                                          *)
(***************************************************************************)
\* pathToParse.startsWith("./") ? pathToParse.slice(2) : pathToParse
normalizedPathOf(pathToParse) ==
  IF pathToParse # << >> /\ pathToParse[1] = "./" THEN Tail(pathToParse) ELSE pathToParse

isUrl(pathToParse) == pathToParse # << >> /\ pathToParse[1] \in {"https://", "http://"}

\* alreadyParsedModulesFn().includes(path)
alreadyParsed(modules, path) == \E i \in 1..Len(modules) : modules[i].filePath = path

\* result.importedModules.map(m => m.filePath)
importPaths(module) == [i \in 1..Len(module.importedModules) |-> module.importedModules[i].filePath]

\* resolveExternalModule: the remote module is imported and the text of each function it
\* exports is concatenated; a failure of the import is thrown as URLImportError.
\* fetched is the remote module's source, or Unparseable when the import fails.
resolveExternalModule(fetched) ==
  IF fetched = Unparseable THEN Thrown(RamCalculationException(URLImportErrorCode))
  ELSE LET exports == SelectSeq(fetched.children,
                                LAMBDA n : n.type = "ExportNamedDeclaration"
                                           /\ n.children[1].type \in {"FunctionDeclaration", "ClassDeclaration"})
       IN Returned(Program([i \in 1..Len(exports) |-> exports[i].children[1]]))

\* otherScripts.find(s => areImportsEquals(s.filename, normalizedPath))?.code
findScript(otherScripts, normalizedPath) ==
  LET i == FindIndex(otherScripts, {sc \in Elements(otherScripts) : areImportsEquals(sc.filename, normalizedPath)})
  IN IF i = 0 THEN Thrown(RamCalculationException(ImportErrorCode)) ELSE Returned(otherScripts[i].code)

\* the first statements of parseAll: parse the entry point, push it, start the worklist
parseAllStart(parsedModules, initialCode) ==
  LET result == parseScript(initialCode, << >>)
  IN IF result.threw THEN result
     ELSE Returned([parsedModules |-> Append(parsedModules, result.value),
                    modulesToParse |-> Uniq(importPaths(result.value))])

\* parseAllIteration without the test for modules that are parsed already
parseAllIterationWithoutCheck(parsedModules, modulesToParse, otherScripts, remote) ==
  LET pathToParse == Head(modulesToParse)
      normalizedPath == normalizedPathOf(pathToParse)
      code == IF isUrl(pathToParse) THEN resolveExternalModule(remote)
              ELSE findScript(otherScripts, normalizedPath)
      result == parseScript(code.value, normalizedPath)
  IN IF code.threw THEN code
     ELSE IF result.threw THEN result
     ELSE Returned([parsedModules |-> Append(parsedModules, result.value),
                    modulesToParse |-> Tail(modulesToParse) \o importPaths(result.value)])

\* parseAllIteration with the imports of a parsed module put at the front of the
\* worklist, not at its end
parseAllIterationDepthFirst(parsedModules, modulesToParse, otherScripts, remote) ==
  LET pathToParse == Head(modulesToParse)
      normalizedPath == normalizedPathOf(pathToParse)
      code == IF isUrl(pathToParse) THEN resolveExternalModule(remote)
              ELSE findScript(otherScripts, normalizedPath)
      result == parseScript(code.value, normalizedPath)
  IN IF alreadyParsed(parsedModules, normalizedPath)
     THEN Returned([parsedModules |-> parsedModules, modulesToParse |-> Tail(modulesToParse)])
     ELSE IF code.threw THEN code
     ELSE IF result.threw THEN result
     ELSE Returned([parsedModules |-> Append(parsedModules, result.value),
                    modulesToParse |-> importPaths(result.value) \o Tail(modulesToParse)])

\* one iteration of the while loop of parseAll
parseAllIteration(parsedModules, modulesToParse, otherScripts, remote) ==
  LET pathToParse == Head(modulesToParse)
      normalizedPath == normalizedPathOf(pathToParse)
      code == IF isUrl(pathToParse) THEN resolveExternalModule(remote)
              ELSE findScript(otherScripts, normalizedPath)
      result == parseScript(code.value, normalizedPath)
  IN IF alreadyParsed(parsedModules, normalizedPath)
     THEN Returned([parsedModules |-> parsedModules, modulesToParse |-> Tail(modulesToParse)])
     ELSE IF code.threw THEN code
     ELSE IF result.threw THEN result
     ELSE Returned([parsedModules |-> Append(parsedModules, result.value),
                    modulesToParse |-> Tail(modulesToParse) \o importPaths(result.value)])

RECURSIVE parseAllLoop(_, _, _, _)
\* the while loop of parseAll, to its return or throw
parseAllLoop(parsedModules, modulesToParse, otherScripts, remote) ==
  IF modulesToParse = << >> THEN Returned(parsedModules)
  ELSE LET step == parseAllIteration(parsedModules, modulesToParse, otherScripts, remote)
       IN IF step.threw THEN step
          ELSE parseAllLoop(step.value.parsedModules, step.value.modulesToParse, otherScripts, remote)

\* new InvocationTreeBuilder().parseAll(initialCode, otherScripts)
parseAll(initialCode, otherScripts, remote) ==
  LET start == parseAllStart(<< >>, initialCode)
  IN IF start.threw THEN start
     ELSE parseAllLoop(start.value.parsedModules, start.value.modulesToParse, otherScripts, remote)


(***************************************************************************)
(* findAllCalledFunctions                                                  *)
(***************************************************************************)
DefaultEntryPoint == DefinedFunction("main", << >>, << >>)

\* isAlreadyProcessed: newFn is in resolvedFunctions or in unresolvedFunctions
isAlreadyProcessed(newFn, resolvedFunctions, unresolvedFunctions) ==
  Includes(resolvedFunctions, newFn) \/ Includes(unresolvedFunctions, newFn)

\* modules.find(m => m.filePath == filePath), NoNode when there is none
findModule(modules, filePath) ==
  LET i == FindIndex(modules, {m \in Elements(modules) : m.filePath = filePath})
  IN IF i = 0 THEN NoNode ELSE modules[i]

\* the import of currentModule that current can come from, NoNode when there is none
importReferenceOf(currentModule, current) ==
  LET i == FindIndex(currentModule.importedModules,
                     {m \in Elements(currentModule.importedModules) :
                        Str(m.alias) = current.namespace
                        /\ (Includes(m.imports, current.name) \/ Includes(m.imports, "*"))})
  IN IF i = 0 THEN NoNode ELSE currentModule.importedModules[i]

\* currentFn: the FunctionTreeNode current resolves to, in its own file or through an
\* import of that file; NoNode when it resolves to none
currentFnOf(modules, currentModule, current) ==
  LET local == FindIndex(currentModule.functionTree, {ft \in Elements(currentModule.functionTree) : ft.fn = current})
      importReference == importReferenceOf(currentModule, current)
      importModule == IF importReference = NoNode THEN NoNode
                      ELSE findModule(modules, importReference.filePath)
      imported == IF importModule = NoNode THEN 0
                  ELSE FindIndex(importModule.functionTree,
                                 {ft \in Elements(importModule.functionTree) : ft.fn.name = current.name /\ ft.fn.namespace = << >>})
  IN IF local # 0 THEN currentModule.functionTree[local]
     ELSE IF imported # 0 THEN importModule.functionTree[imported]
     ELSE NoNode

\* findIteration with the else of "if (currentFn)" lost: current is always pushed on
\* unresolvedFunctions
findIterationWithoutElse(modules, toProcess, resolvedFunctions, unresolvedFunctions) ==
  LET current == Head(toProcess)
      currentModule == findModule(modules, current.filePath)
      currentFn == currentFnOf(modules, currentModule, current)
      newDependencies == SelectSeq(currentFn.calledFunctions,
                                   LAMBDA d : ~isAlreadyProcessed(d, resolvedFunctions, unresolvedFunctions))
  IN IF currentModule = NoNode
     THEN [toProcess |-> Tail(toProcess),
           resolvedFunctions |-> resolvedFunctions,
           unresolvedFunctions |-> unresolvedFunctions]
     ELSE IF currentFn # NoNode
     THEN [toProcess |-> Tail(toProcess) \o newDependencies,
           resolvedFunctions |-> Append(resolvedFunctions, current),
           unresolvedFunctions |-> Append(unresolvedFunctions, current)]
     ELSE [toProcess |-> Tail(toProcess),
           resolvedFunctions |-> resolvedFunctions,
           unresolvedFunctions |-> Append(unresolvedFunctions, current)]

\* findIteration without the filter on the dependencies: they are all put on the
\* worklist, the processed ones too
findIterationWithoutFilter(modules, toProcess, resolvedFunctions, unresolvedFunctions) ==
  LET current == Head(toProcess)
      currentModule == findModule(modules, current.filePath)
      currentFn == currentFnOf(modules, currentModule, current)
  IN IF currentModule = NoNode
     THEN [toProcess |-> Tail(toProcess),
           resolvedFunctions |-> resolvedFunctions,
           unresolvedFunctions |-> unresolvedFunctions]
     ELSE IF currentFn # NoNode
     THEN [toProcess |-> Tail(toProcess) \o currentFn.calledFunctions,
           resolvedFunctions |-> Append(resolvedFunctions, current),
           unresolvedFunctions |-> unresolvedFunctions]
     ELSE [toProcess |-> Tail(toProcess),
           resolvedFunctions |-> resolvedFunctions,
           unresolvedFunctions |-> Append(unresolvedFunctions, current)]

\* findIteration without the "if (!currentModule) continue": an item whose filePath is
\* the filePath of no module is pushed on unresolvedFunctions
findIterationWithoutContinue(modules, toProcess, resolvedFunctions, unresolvedFunctions) ==
  LET current == Head(toProcess)
      currentModule == findModule(modules, current.filePath)
      currentFn == currentFnOf(modules, currentModule, current)
      newDependencies == SelectSeq(currentFn.calledFunctions,
                                   LAMBDA d : ~isAlreadyProcessed(d, resolvedFunctions, unresolvedFunctions))
  IN IF currentModule = NoNode
     THEN [toProcess |-> Tail(toProcess),
           resolvedFunctions |-> resolvedFunctions,
           unresolvedFunctions |-> Append(unresolvedFunctions, current)]
     ELSE IF currentFn # NoNode
     THEN [toProcess |-> Tail(toProcess) \o newDependencies,
           resolvedFunctions |-> Append(resolvedFunctions, current),
           unresolvedFunctions |-> unresolvedFunctions]
     ELSE [toProcess |-> Tail(toProcess),
           resolvedFunctions |-> resolvedFunctions,
           unresolvedFunctions |-> Append(unresolvedFunctions, current)]

\* one iteration of the while loop of findAllCalledFunctions
findIteration(modules, toProcess, resolvedFunctions, unresolvedFunctions) ==
  LET current == Head(toProcess)
      currentModule == findModule(modules, current.filePath)
      currentFn == currentFnOf(modules, currentModule, current)
      newDependencies == SelectSeq(currentFn.calledFunctions,
                                   LAMBDA d : ~isAlreadyProcessed(d, resolvedFunctions, unresolvedFunctions))
  IN IF currentModule = NoNode
     THEN [toProcess |-> Tail(toProcess),
           resolvedFunctions |-> resolvedFunctions,
           unresolvedFunctions |-> unresolvedFunctions]
     ELSE IF currentFn # NoNode
     THEN [toProcess |-> Tail(toProcess) \o newDependencies,
           resolvedFunctions |-> Append(resolvedFunctions, current),
           unresolvedFunctions |-> unresolvedFunctions]
     ELSE [toProcess |-> Tail(toProcess),
           resolvedFunctions |-> resolvedFunctions,
           unresolvedFunctions |-> Append(unresolvedFunctions, current)]

RECURSIVE findLoop(_, _, _, _)
\* the while loop of findAllCalledFunctions, to its return
findLoop(modules, toProcess, resolvedFunctions, unresolvedFunctions) ==
  IF toProcess = << >>
  THEN [resolvedFunctions |-> resolvedFunctions, unresolvedFunctions |-> unresolvedFunctions]
  ELSE LET step == findIteration(modules, toProcess, resolvedFunctions, unresolvedFunctions)
       IN findLoop(modules, step.toProcess, step.resolvedFunctions, step.unresolvedFunctions)

findAllCalledFunctions(modules, entry) == findLoop(modules, <<entry>>, << >>, << >>)

(***************************************************************************)
(* calculateRamCost                                                        *)
(***************************************************************************)
RamUsageEntry(type, name, cost) == [type |-> type, name |-> name, cost |-> cost]

specialKeyChecks ==
  <<RamUsageEntry("ns", <<"ns", "hacknet">>, Num(ScriptHacknetNodesRamCost)),
    RamUsageEntry("dom", <<"document">>, Num(ScriptDomRamCost)),
    RamUsageEntry("dom", <<"window">>, Num(ScriptDomRamCost)),
    RamUsageEntry("ns", <<"ns", "corporation">>, Num(ScriptCorporationRamCost))>>

\* fn.namespace.split("."): "" splits to [""]
splitNamespace(namespace) == IF namespace = << >> THEN <<"">> ELSE namespace

\* RamCosts[libPart][fn.name] reads a property of undefined
costEntryThrows(fn) ==
  LET special == FindIndex(specialKeyChecks, {sk \in Elements(specialKeyChecks) : fn.namespace = sk.name})
      split == splitNamespace(fn.namespace)
  IN special = 0 /\ Len(split) > 1 /\ Lookup(RamCosts, split[Len(split)]).t = "undefined"

\* the RamUsageEntry calculateRamCost maps one function to
costEntry(player, fn) ==
  LET special == FindIndex(specialKeyChecks, {sk \in Elements(specialKeyChecks) : fn.namespace = sk.name})
      split == splitNamespace(fn.namespace)
      found == Lookup(Lookup(RamCosts, split[Len(split)]), fn.name)
      cost == IF Len(split) > 1
              THEN (IF found.t = "undefined" THEN Num(0) ELSE found)
              ELSE Lookup(RamCosts, fn.name)
      actualCost == IF cost.t = "function" THEN Num(cost.base * player) ELSE cost
  IN IF special # 0 THEN specialKeyChecks[special]
     ELSE RamUsageEntry("ns", Str(fn.name), actualCost)

\* a + b of JavaScript on costs: numbers add, anything else concatenates to a string
JsAdd(a, b) == IF a.t = "number" /\ b.t = "number" THEN Num(a.v + b.v) ELSE NotANumber

RECURSIVE sumFrom(_, _)
\* _.sum: undefined values are skipped, the others are added from left to right
sumFrom(result, values) ==
  IF values = << >> THEN result
  ELSE sumFrom(IF Head(values).t = "undefined" THEN result
               ELSE IF result.t = "undefined" THEN Head(values)
               ELSE JsAdd(result, Head(values)),
               Tail(values))

calculateRamCost(player, functions) ==
  LET uniqueFunctions == Uniq(functions)
      entries == [i \in 1..Len(uniqueFunctions) |-> costEntry(player, uniqueFunctions[i])]
      baseCost == RamUsageEntry("misc", <<"baseCost">>, Num(ScriptBaseRamCost))
      entriesWithBase == <<baseCost>> \o entries
      cost == sumFrom(Undefined, [i \in 1..Len(entriesWithBase) |-> entriesWithBase[i].cost])
  IN IF \E i \in 1..Len(uniqueFunctions) : costEntryThrows(uniqueFunctions[i])
     THEN Thrown(TypeError)
     ELSE Returned([cost |-> cost, entries |-> entries])

(***************************************************************************)
(* calculateRamUsage                                                       *)
(***************************************************************************)
\* the catch clause reporting every error as a syntax error
catchErrorAsSyntaxError(error) == [cost |-> Num(SyntaxErrorCode)]

\* the catch clause: error?.code ?? RamCalculationErrorCode.SyntaxError
catchError(error) ==
  [cost |-> Num(IF "code" \in DOMAIN error THEN error.code ELSE SyntaxErrorCode)]

\* calculateRamUsage as a function of its arguments and of what the network serves
calculateRamUsage(player, codeCopy, otherScripts, remote) ==
  LET parseResults == parseAll(codeCopy, otherScripts, remote)
      allCalledFunctions == findAllCalledFunctions(parseResults.value, DefaultEntryPoint)
      ram == calculateRamCost(player, allCalledFunctions.unresolvedFunctions)
  IN IF parseResults.threw THEN catchError(parseResults.error)
     ELSE IF ram.threw THEN catchError(ram.error)
     ELSE ram.value


(***************************************************************************)
(* Inputs: scripts as the tests of RamCalculations write them.             *)
(***************************************************************************)
\* ns.hack("joesguns") and the like, with ns the name of the receiver
CallOn(p, method) == ExprStmt(Await(Call(Member(Id(p), method), <<Lit>>)))
\* ns.stanek.get(0, 0) and the like
CallOnSub(p, sub, method) == ExprStmt(Call(Member(Member(Id(p), sub), method), <<Lit>>))
\* doHack(ns)
CallBare(f, p) == ExprStmt(Await(Call(Id(f), <<Id(p)>>)))

\* const stnGet = ns.stanek.get;
StanekGetReference(p) == ConstDecl(Member(Member(Id(p), "stanek"), "get"))
\* stnGet(0, 0);
StanekGetCall == ExprStmt(Call(Id("stnGet"), <<Lit, Lit>>))
\* const stn = ns.stanek;
StanekReference(p) == ConstDecl(Member(Id(p), "stanek"))
\* billybob.get()
BillybobGet == ExprStmt(Call(Member(Id("billybob"), "get"), << >>))
\* billybob.thing.get()
BillybobThingGet == ExprStmt(Call(Member(Member(Id("billybob"), "thing"), "get"), << >>))
\* await new Hacker(ns).doHacking()
NewHacker(p) == ExprStmt(Await(Call(Member(New(Id("Hacker"), <<Id(p)>>), "doHacking"), << >>)))
\* document.getElementById("something")
DocumentGet == ExprStmt(Call(Member(Id("document"), "getElementById"), <<Lit>>))
\* makeHandler()()
CallOfCall == ExprStmt(Call(Call(Id("makeHandler"), << >>), << >>))
\* await test.doHack(ns)
CallOnImport(alias, f, p) == ExprStmt(Await(Call(Member(Id(alias), f), <<Id(p)>>)))

\* await doHacking(ns.hack("joesguns")): a call in the argument list of a call
CallWithCallArgument(f, p, method) == ExprStmt(Await(Call(Id(f), <<Call(Member(Id(p), method), <<Lit>>)>>)))
\* await doHacking(() => ns.grow("joesguns")): a callback passed as an argument
CallWithCallback(f, p, method) == ExprStmt(Await(Call(Id(f), <<Arrow(Call(Member(Id(p), method), <<Lit>>))>>)))

\* async function doHacking(X) { await X.hack("joesguns"); }
DoHackingDecl == FunctionDecl("doHacking", <<"X">>, <<CallOn("X", "hack")>>)
\* class Hacker { async doHacking() { await this.ns.hack("joesguns"); } }
HackerDecl ==
  ClassDecl("Hacker", "doHacking", <<ExprStmt(Await(Call(Member(Member(This, "ns"), "hack"), <<Lit>>)))>>)
\* function get() { return 0; }
GetDecl == FunctionDecl("get", << >>, <<Return(Lit)>>)

\* function hack() { return 0; } and the like: a script's own function with the name of
\* a platform API
OwnDecl(name) == FunctionDecl(name, << >>, <<Return(Lit)>>)

\* a statement of main, with the declarations it needs in the script
Snippet(stmt, decls) == [stmt |-> stmt, decls |-> decls]

\* the statements of a script that stands alone
SingleFileStatements(p) ==
  {Snippet(CallOn(p, "hack"), << >>), Snippet(CallOn(p, "grow"), << >>),
   Snippet(CallOn(p, "universityCourse"), << >>),
   Snippet(CallOnSub(p, "hacknet", "purchaseNode"), << >>),
   Snippet(CallOnSub(p, "stanek", "get"), << >>),
   Snippet(CallOnSub(p, "sleeve", "nothing"), << >>),
   Snippet(StanekGetReference(p), << >>), Snippet(StanekGetCall, << >>),
   Snippet(StanekReference(p), << >>),
   Snippet(BillybobGet, << >>), Snippet(BillybobThingGet, << >>),
   Snippet(DocumentGet, << >>), Snippet(CallOfCall, << >>),
   Snippet(CallBare("doHacking", p), <<DoHackingDecl>>),
   Snippet(CallBare("get", p), <<GetDecl>>),
   Snippet(NewHacker(p), <<HackerDecl>>)}

\* more statements of a script that stands alone: calls of its own functions that are
\* named like platform APIs, two functions of one namespace, calls inside arguments
OwnAndNestedStatements(p) ==
  {Snippet(CallBare("hack", p), <<OwnDecl("hack")>>),
   Snippet(CallBare("purchaseNode", p), <<OwnDecl("purchaseNode")>>),
   Snippet(CallOnSub(p, "hacknet", "purchaseNode"), << >>),
   Snippet(CallOnSub(p, "hacknet", "numNodes"), << >>),
   Snippet(CallWithCallArgument("get", p, "hack"), <<GetDecl>>),
   Snippet(CallWithCallback("get", p, "grow"), <<GetDecl>>)}

\* the statements of a script that uses what it imports
ImportingStatements(p) ==
  {Snippet(CallOn(p, "hack"), << >>), Snippet(CallBare("doHack", p), << >>),
   Snippet(CallOnImport("test", "doHack", p), << >>), Snippet(CallBare("a", p), << >>),
   Snippet(CallBare("ping", p), << >>)}

\* import ... ; export async function main(p) { the statements } ; their declarations
EntryScript(imports, p, body) ==
  Program(imports
          \o <<Export(FunctionDecl("main", <<p>>, [i \in 1..Len(body) |-> body[i].stmt]))>>
          \o Uniq(Flatten([i \in 1..Len(body) |-> body[i].decls])))

\* the import declarations of an entry-point script
ImportDeclarations ==
  LET named1 == <<ImportSpecifier("doHack", "doHack")>>
      named2 == <<ImportSpecifier("doHack", "doHack"), ImportSpecifier("doGrow", "doGrow")>>
  IN {ImportDecl(named1, <<"lib">>), ImportDecl(named1, <<"./", "lib">>),
      ImportDecl(named2, <<"lib", ".js">>),
      ImportDecl(<<ImportNamespaceSpecifier("test")>>, <<"lib">>),
      ImportDecl(<<ImportNamespaceSpecifier("test")>>, <<"./", "lib">>),
      ImportDecl(<<ImportDefaultSpecifier("test")>>, <<"lib">>),
      ImportDecl(<<ImportSpecifier("a", "a")>>, <<"a">>),
      ImportDecl(<<ImportSpecifier("ping", "ping")>>, <<"rec">>),
      \* import test, {doHack} from "lib"
      ImportDecl(<<ImportDefaultSpecifier("test"), ImportSpecifier("doHack", "doHack")>>, <<"lib">>),
      \* import "lib"
      ImportDecl(<< >>, <<"lib">>),
      ImportDecl(named1, <<"missing">>),
      ImportDecl(named1, <<"bad">>),
      ImportDecl(named1, <<"https://", "host/lib", ".js">>)}

\* libTest.js of the tests
LibCode ==
  Program(<<Export(FunctionDecl("doHack", <<"ns">>, <<Return(Await(Call(Member(Id("ns"), "hack"), <<Lit>>)))>>)),
            Export(FunctionDecl("doGrow", <<"ns">>, <<Return(Await(Call(Member(Id("ns"), "grow"), <<Lit>>)))>>))>>)
\* two modules that import each other, with functions that call each other
ACode ==
  Program(<<ImportDecl(<<ImportSpecifier("b", "b")>>, <<"b">>),
            ImportDecl(<<ImportSpecifier("doHack", "doHack")>>, <<"lib">>),
            Export(FunctionDecl("a", <<"ns">>, <<CallBare("b", "ns")>>))>>)
BCode ==
  Program(<<ImportDecl(<<ImportSpecifier("a", "a")>>, <<"a">>),
            ImportDecl(<<ImportSpecifier("ping", "ping")>>, <<"rec">>),
            Export(FunctionDecl("b", <<"ns">>, <<CallBare("a", "ns"), CallOn("ns", "grow")>>))>>)
\* a module that imports itself, with a function that calls itself and two that call
\* each other
RecCode ==
  Program(<<ImportDecl(<<ImportSpecifier("ping", "ping")>>, <<"rec">>),
            Export(FunctionDecl("ping", <<"ns">>, <<CallBare("pong", "ns"), CallBare("ping", "ns")>>)),
            FunctionDecl("pong", <<"ns">>, <<CallBare("ping", "ns"), CallOn("ns", "hack")>>)>>)

Script(filename, code) == [filename |-> filename, code |-> code]
\* the files on the server
OtherScripts ==
  <<Script(<<"lib", ".js">>, LibCode), Script(<<"a", ".js">>, ACode),
    Script(<<"b", ".js">>, BCode), Script(<<"rec", ".js">>, RecCode),
    Script(<<"bad", ".js">>, Unparseable)>>

\* what the dynamic import of a URL yields: a module, or nothing (the import fails)
Remotes == {LibCode, Unparseable}

\* what the network can serve for the imports of a script: it matters for a URL only
RemotesOf(import) == IF isUrl(import.source.value) THEN Remotes ELSE {Unparseable}

\* the entry points findAllCalledFunctions is called with besides the default one
EntryPoints ==
  {DefinedFunction("main", << >>, << >>), DefinedFunction("doHack", << >>, <<"lib">>),
   DefinedFunction("main", << >>, <<"nofile">>)}

Input(operation, entry, p, code, scripts, rem) ==
  [operation |-> operation, entryPoint |-> entry, player |-> p, codeCopy |-> code,
   otherScripts |-> scripts, remote |-> rem]

\* the statements whose cost depends on the player, and one whose cost does not
PlayerStatements(p) == {Snippet(CallOn(p, "universityCourse"), << >>), Snippet(CallOn(p, "hack"), << >>)}

\* the imports of the entry-point scripts a caller hands to one InvocationTreeBuilder
BuilderImports ==
  {ImportDecl(<<ImportSpecifier("a", "a")>>, <<"a">>),
   ImportDecl(<<ImportSpecifier("doHack", "doHack")>>, <<"./", "lib">>),
   ImportDecl(<<ImportSpecifier("ping", "ping")>>, <<"rec">>)}
\* the entry-point scripts a caller hands to one InvocationTreeBuilder
BuilderScripts == {EntryScript(imports, "ns", << >>) : imports \in SeqsUpTo(BuilderImports, 1)}

\* calculateRamUsage of a script that stands alone
StandAloneInputs ==
  {Input("calculateRamUsage", DefaultEntryPoint, 1, EntryScript(<< >>, "ns", body), << >>, Unparseable) :
     body \in SeqsUpTo(SingleFileStatements("ns"), MaxBody)}
OwnAndNestedInputs ==
  {Input("calculateRamUsage", DefaultEntryPoint, 1, EntryScript(<< >>, "ns", body), << >>, Unparseable) :
     body \in SeqsUpTo(OwnAndNestedStatements("ns"), MaxBody)}
PlayerInputs ==
  {Input("calculateRamUsage", DefaultEntryPoint, p, EntryScript(<< >>, "ns", body), << >>, Unparseable) :
     p \in Players, body \in SeqsUpTo(PlayerStatements("ns"), MaxBody)}
UnparseableInputs ==
  {Input("calculateRamUsage", DefaultEntryPoint, 1, Unparseable, << >>, Unparseable)}
\* calculateRamUsage of a script with an import
ImportingInputs ==
  UNION {{Input("calculateRamUsage", DefaultEntryPoint, 1, EntryScript(<<import>>, "ns", body),
                OtherScripts, rem) :
            body \in SeqsUpTo(ImportingStatements("ns"), MaxBody), rem \in RemotesOf(import)} :
         import \in ImportDeclarations}
\* parseAll and then findAllCalledFunctions, as the tests call them
FindInputs ==
  {Input("findAllCalledFunctions", entry, 1, EntryScript(imports, "ns", body), OtherScripts, Unparseable) :
     entry \in EntryPoints, imports \in SeqsUpTo(ImportDeclarations, MaxImports),
     body \in SeqsUpTo(ImportingStatements("ns"), 1)}
\* parseAll, called by a caller that keeps the InvocationTreeBuilder
BuilderInputs ==
  {Input("parseAll", DefaultEntryPoint, 1, code, OtherScripts, Unparseable) : code \in BuilderScripts}

\* the families of inputs
Inputs ==
  {StandAloneInputs, OwnAndNestedInputs, PlayerInputs, UnparseableInputs,
   ImportingInputs, FindInputs, BuilderInputs}

(***************************************************************************)
(* The state machine: one run of calculateRamUsage, or of parseAll and     *)
(* findAllCalledFunctions called one after the other.                      *)
(***************************************************************************)
VARIABLES
  operation,            \* the exported function that is called
  player, codeCopy, otherScripts,   \* the arguments of calculateRamUsage
  remote,               \* what the network serves for a URL import
  entryPoint,           \* the entry point given to findAllCalledFunctions
  pc,                   \* where the run is
  parsedModules,        \* InvocationTreeBuilder.#parsedModules
  calls,                \* the parseAll calls made on the InvocationTreeBuilder
  returned,             \* the lists the earlier parseAll calls returned, as they were returned
  modulesToParse,       \* the worklist of parseAll
  toProcess, resolvedFunctions, unresolvedFunctions,  \* the locals of findAllCalledFunctions
  error,                \* the error thrown, if any
  result                \* the RamCalculation returned

inputs == <<operation, player, codeCopy, otherScripts, remote, entryPoint>>
parseVars == <<parsedModules, modulesToParse>>
callVars == <<calls, returned>>
findVars == <<toProcess, resolvedFunctions, unresolvedFunctions>>
vars == <<inputs, pc, parseVars, callVars, findVars, error, result>>

NoError == [name |-> "<none>"]
NoResult == [pending |-> TRUE]

Init ==
  /\ \E family \in Inputs : \E input \in family :
       /\ operation = input.operation
       /\ entryPoint = input.entryPoint
       /\ player = input.player
       /\ codeCopy = input.codeCopy
       /\ otherScripts = input.otherScripts
       /\ remote = input.remote
  /\ pc = "parseAll"
  /\ parsedModules = << >>
  /\ modulesToParse = << >>
  /\ calls = 1
  /\ returned = << >>
  /\ toProcess = << >>
  /\ resolvedFunctions = << >>
  /\ unresolvedFunctions = << >>
  /\ error = NoError
  /\ result = NoResult

\* an error thrown inside calculateRamUsage goes to its catch clause; one thrown by
\* parseAll called directly escapes to the caller
Throw(e) ==
  /\ error' = e
  /\ pc' = IF operation = "calculateRamUsage" THEN "catch" ELSE "threw"

\* parseAll up to its while loop
ParseAllStart ==
  /\ pc = "parseAll"
  /\ LET start == parseAllStart(parsedModules, codeCopy)
     IN IF start.threw
        THEN Throw(start.error) /\ UNCHANGED parseVars
        ELSE /\ parsedModules' = start.value.parsedModules
             /\ modulesToParse' = start.value.modulesToParse
             /\ pc' = "parseLoop"
             /\ UNCHANGED error
  /\ UNCHANGED <<inputs, callVars, findVars, result>>

\* one iteration of the while loop of parseAll
ParseAllIterate ==
  /\ pc = "parseLoop"
  /\ modulesToParse # << >>
  /\ LET step == parseAllIteration(parsedModules, modulesToParse, otherScripts, remote)
     IN IF step.threw
        THEN Throw(step.error) /\ UNCHANGED parseVars
        ELSE /\ parsedModules' = step.value.parsedModules
             /\ modulesToParse' = step.value.modulesToParse
             /\ UNCHANGED <<pc, error>>
  /\ UNCHANGED <<inputs, callVars, findVars, result>>

\* parseAll returns this.#parsedModules and findAllCalledFunctions starts; a caller of
\* parseAll alone has its list
ParseAllReturn ==
  /\ pc = "parseLoop"
  /\ modulesToParse = << >>
  /\ returned' = Append(returned, parsedModules)
  /\ IF operation = "parseAll"
     THEN pc' = "done" /\ UNCHANGED findVars
     ELSE /\ toProcess' = <<entryPoint>>
          /\ resolvedFunctions' = << >>
          /\ unresolvedFunctions' = << >>
          /\ pc' = "findLoop"
  /\ UNCHANGED <<inputs, parseVars, calls, error, result>>

\* the caller calls parseAll again on the same InvocationTreeBuilder, with another script
ParseAllAgain ==
  /\ pc = "done"
  /\ operation = "parseAll"
  /\ calls < MaxCalls
  /\ calls' = calls + 1
  /\ \E code \in BuilderScripts : codeCopy' = code
  /\ pc' = "parseAll"
  /\ UNCHANGED <<operation, player, otherScripts, remote, entryPoint>>
  /\ UNCHANGED <<parseVars, returned, findVars, error, result>>

\* one iteration of the while loop of findAllCalledFunctions
FindIterate ==
  /\ pc = "findLoop"
  /\ toProcess # << >>
  /\ LET step == findIteration(parsedModules, toProcess, resolvedFunctions, unresolvedFunctions)
     IN /\ toProcess' = step.toProcess
        /\ resolvedFunctions' = step.resolvedFunctions
        /\ unresolvedFunctions' = step.unresolvedFunctions
  /\ UNCHANGED <<inputs, pc, parseVars, callVars, error, result>>

\* findAllCalledFunctions returns
FindReturn ==
  /\ pc = "findLoop"
  /\ toProcess = << >>
  /\ pc' = IF operation = "calculateRamUsage" THEN "cost" ELSE "done"
  /\ UNCHANGED <<inputs, parseVars, callVars, findVars, error, result>>

\* CalculateRamCost charging every function findAllCalledFunctions returns, the resolved
\* ones too
CalculateRamCostOfAll ==
  /\ pc = "cost"
  /\ LET ram == calculateRamCost(player, resolvedFunctions \o unresolvedFunctions)
     IN IF ram.threw
        THEN Throw(ram.error) /\ UNCHANGED result
        ELSE result' = ram.value /\ pc' = "done" /\ UNCHANGED error
  /\ UNCHANGED <<inputs, parseVars, callVars, findVars>>

\* calculateRamCost(player, allCalledFunctions.unresolvedFunctions)
CalculateRamCost ==
  /\ pc = "cost"
  /\ LET ram == calculateRamCost(player, unresolvedFunctions)
     IN IF ram.threw
        THEN Throw(ram.error) /\ UNCHANGED result
        ELSE result' = ram.value /\ pc' = "done" /\ UNCHANGED error
  /\ UNCHANGED <<inputs, parseVars, callVars, findVars>>

\* the catch clause of calculateRamUsage
Catch ==
  /\ pc = "catch"
  /\ result' = catchError(error)
  /\ pc' = "done"
  /\ UNCHANGED <<inputs, parseVars, callVars, findVars, error>>

Next ==
  \/ ParseAllStart
  \/ ParseAllIterate
  \/ ParseAllReturn
  \/ ParseAllAgain
  \/ FindIterate
  \/ FindReturn
  \/ CalculateRamCost
  \/ Catch

Spec == Init /\ [][Next]_vars


(***************************************************************************)
(* Properties                                                              *)
(***************************************************************************)
\* calculateRamUsage has returned
Done == pc = "done" /\ operation = "calculateRamUsage"
\* calculateRamUsage has returned a calculation, not an error code
Succeeded == Done /\ "entries" \in DOMAIN result
\* findAllCalledFunctions has just returned
FindReturned == pc = "cost" \/ (pc = "done" /\ operation = "findAllCalledFunctions")

isSpecial(namespace) == \E i \in 1..Len(specialKeyChecks) : specialKeyChecks[i].name = namespace

\* The platform API a charged call names: the sub-API (the last segment of a dotted
\* namespace, or the global object document or window) and the function, whatever the
\* receiver variable is called and whatever file the call is in.
apiIdentifier(fn) ==
  IF Len(fn.namespace) > 1 THEN <<fn.namespace[Len(fn.namespace)], fn.name>>
  ELSE IF fn.namespace \in {<<"document">>, <<"window">>} THEN <<fn.namespace[1], fn.name>>
  ELSE <<"", fn.name>>

\* the first call of each platform API, in order
RECURSIVE firstPerApi(_)
firstPerApi(functions) ==
  IF functions = << >> THEN << >>
  ELSE LET init == firstPerApi(SubSeq(functions, 1, Len(functions) - 1))
           last == functions[Len(functions)]
       IN IF \E i \in 1..Len(init) : apiIdentifier(init[i]) = apiIdentifier(last)
          THEN init ELSE Append(init, last)

\* C1: Deduplication: however often and wherever the analyzed source calls a platform API
\* (same function, other functions, imported modules, other receiver names), the total
\* holds that API's cost once.
DeduplicationHolds ==
  Succeeded => result.cost = calculateRamCost(player, firstPerApi(unresolvedFunctions)).value.cost

(***************************************************************************)
(* The calls of the language: which declaration a recorded call refers to. *)
(***************************************************************************)
declares(module, name) ==
  \E i \in 1..Len(module.functionTree) : module.functionTree[i].fn.name = name

\* the declarations (name and file) that a call made in module refers to
calleesOf(modules, module, call) ==
  IF call.namespace = << >> /\ declares(module, call.name)
  THEN {[name |-> call.name, filePath |-> module.filePath]}
  ELSE {[name |-> call.name, filePath |-> m.filePath] :
          m \in {modules[k] : k \in {k \in 1..Len(modules) :
                   /\ declares(modules[k], call.name)
                   /\ \E i \in 1..Len(module.importedModules) :
                        LET imp == module.importedModules[i]
                        IN /\ normalizedPathOf(imp.filePath) = modules[k].filePath
                           /\ \/ call.namespace = << >> /\ imp.alias = "" /\ Includes(imp.imports, call.name)
                              \/ imp.alias # "" /\ call.namespace = <<imp.alias>>}}}

\* the calls made by the declaration d
callsOf(modules, d) ==
  LET module == findModule(modules, d.filePath)
      i == FindIndex(module.functionTree, {ft \in Elements(module.functionTree) : ft.fn.name = d.name})
  IN {module.functionTree[i].calledFunctions[k] : k \in 1..Len(module.functionTree[i].calledFunctions)}

\* the declarations that the calls of the declaration d refer to
calleesFrom(modules, d) ==
  UNION {calleesOf(modules, findModule(modules, d.filePath), c) : c \in callsOf(modules, d)}

RECURSIVE reachableFrom(_, _)
\* the declarations called, directly or transitively, from those of the set reached
reachableFrom(modules, reached) ==
  LET next == reached \cup UNION {calleesFrom(modules, d) : d \in reached}
  IN IF next = reached THEN reached ELSE reachableFrom(modules, next)

\* the declarations called, directly or transitively, from main of the entry-point script
calledFromMain(modules) ==
  IF modules # << >> /\ declares(modules[1], "main")
  THEN reachableFrom(modules, {[name |-> "main", filePath |-> << >>]})
  ELSE {}

\* C2: Resolution completeness: every function declared in a module of parseAll's list and
\* called, directly or transitively, from main is in resolvedFunctions, whatever the
\* import form and the spelling of the specifier.
ResolutionComplete ==
  FindReturned /\ entryPoint = DefaultEntryPoint =>
    \A d \in calledFromMain(parsedModules) :
      \E i \in 1..Len(resolvedFunctions) : resolvedFunctions[i].name = d.name

\* C3: the entries of a successful calculateRamUsage start with the baseCost entry and
\* their costs add up to the returned cost.
EntriesAreFull ==
  Succeeded =>
    /\ result.entries # << >>
    /\ result.entries[1] = RamUsageEntry("misc", <<"baseCost">>, Num(ScriptBaseRamCost))
    /\ result.cost = sumFrom(Undefined, [i \in 1..Len(result.entries) |-> result.entries[i].cost])

\* a call whose lookup in the cost table fails: no entry for its name, or, under a dotted
\* namespace, no entry for the last segment or none for the name under it
lookupFails(fn) ==
  /\ ~isSpecial(fn.namespace)
  /\ IF Len(fn.namespace) > 1
     THEN Lookup(Lookup(RamCosts, fn.namespace[Len(fn.namespace)]), fn.name).t = "undefined"
     ELSE Lookup(RamCosts, fn.name).t = "undefined"

\* C4: a call whose lookup fails is no error: calculateRamUsage succeeds and the total is
\* what it is without that call.
FailedLookupsCostNothing ==
  Done /\ (\E i \in 1..Len(unresolvedFunctions) : lookupFails(unresolvedFunctions[i])) =>
    /\ "entries" \in DOMAIN result
    /\ result.cost = calculateRamCost(player, SelectSeq(unresolvedFunctions, LAMBDA fn : ~lookupFails(fn))).value.cost

RECURSIVE renameIn(_, _, _)
\* the node with every use of the variable old renamed to new
renameIn(node, old, new) ==
  CASE node.type = "Identifier" -> IF node.name = old THEN Id(new) ELSE node
    [] node.type = "MemberExpression" -> [node EXCEPT !.object = renameIn(node.object, old, new)]
    [] node.type \in {"CallExpression", "NewExpression"} ->
         [node EXCEPT !.callee = renameIn(node.callee, old, new),
                      !.arguments = [i \in 1..Len(node.arguments) |-> renameIn(node.arguments[i], old, new)]]
    [] "children" \in DOMAIN node ->
         [node EXCEPT !.children = [i \in 1..Len(node.children) |-> renameIn(node.children[i], old, new)]]
    [] OTHER -> node

\* the script with the first parameter of main, and its uses in the body of main, renamed
renameMainParam(code, new) ==
  IF code = Unparseable THEN code
  ELSE Program([i \in 1..Len(code.children) |->
         LET n == code.children[i]
             isMain == /\ n.type = "ExportNamedDeclaration"
                       /\ n.children[1].type = "FunctionDeclaration"
                       /\ n.children[1].id.name = "main"
             main == n.children[1]
         IN IF isMain
            THEN Export([main EXCEPT !.params = <<new>> \o Rest(main.params),
                                     !.body = renameIn(main.body, main.params[1], new)])
            ELSE n])

\* names no script of the inputs uses
FreshNames == {"netscript", "n"}

\* C5: Shape-only: renaming the first parameter of main does not change the cost.
ShapeOnly ==
  Done => \A new \in FreshNames :
            calculateRamUsage(player, renameMainParam(codeCopy, new), otherScripts, remote).cost = result.cost

\* C6: Base-cost floor: a successful calculation returns a number that is at least the base cost.
BaseCostFloor ==
  Succeeded => result.cost.t = "number" /\ result.cost.v >= ScriptBaseRamCost

\* export async function main(ns) { const stnGet = ns.stanek.get; stnGet(0, 0); }
StanekGetScript ==
  EntryScript(<< >>, "ns", <<Snippet(StanekGetReference("ns"), << >>), Snippet(StanekGetCall, << >>)>>)

\* C7: main(ns){ const g = ns.stanek.get; g(0,0); } costs the base cost plus the cost of stanek.get.
StanekGetReferenceCharged ==
  Done /\ codeCopy = StanekGetScript => result.cost = Num(ScriptBaseRamCost + ScriptStanekFragmentAt)

\* parseAll stopped at a specifier that is no URL and matches no file
missingImport ==
  /\ modulesToParse # << >>
  /\ ~isUrl(Head(modulesToParse))
  /\ ~alreadyParsed(parsedModules, normalizedPathOf(Head(modulesToParse)))
  /\ \A i \in 1..Len(otherScripts) :
       ~areImportsEquals(otherScripts[i].filename, normalizedPathOf(Head(modulesToParse)))

\* C8: no error escapes calculateRamUsage: when one is thrown, the result has no entries and
\* its cost is the code of one of the three error kinds, the ImportError code when an
\* import specifier that is no URL matches no file.
NoErrorEscapes ==
  operation = "calculateRamUsage" =>
    /\ pc # "threw"
    /\ pc = "done" => result # NoResult
    /\ pc = "done" /\ error # NoError =>
         /\ "entries" \notin DOMAIN result
         /\ result.cost.t = "number" /\ result.cost.v \in ErrorCodes
    /\ pc = "done" /\ missingImport => result = [cost |-> Num(ImportErrorCode)]

\* calculateRamUsage returned the ImportError code for a specifier that matches no file
ImportErrorReturned ==
  Done /\ missingImport /\ error = RamCalculationException(ImportErrorCode)
       /\ result = [cost |-> Num(ImportErrorCode)]

\* C9: Unresolved-set disjointness: no DefinedFunction is both in resolvedFunctions and in
\* unresolvedFunctions.
UnresolvedDisjoint ==
  \A i \in 1..Len(resolvedFunctions) : \A j \in 1..Len(unresolvedFunctions) :
    resolvedFunctions[i] # unresolvedFunctions[j]

\* findAllCalledFunctions returned with functions on both lists, one named on both
BothListsFilled ==
  /\ FindReturned
  /\ \E i \in 1..Len(resolvedFunctions) : \E j \in 1..Len(unresolvedFunctions) :
       resolvedFunctions[i].name = unresolvedFunctions[j].name

\* the source a parsed module was parsed from
sourceOf(module) ==
  IF module.filePath = << >> THEN codeCopy
  ELSE IF isUrl(module.filePath) THEN resolveExternalModule(remote).value
  ELSE findScript(otherScripts, module.filePath).value

\* the modules the running parseAll call has parsed: those behind the ones the builder
\* held when the call started
parsedInThisCall ==
  LET before == IF calls = 1 THEN 0 ELSE Len(returned[calls - 1])
  IN (before + 1)..Len(parsedModules)

\* the import declarations of a script, in source order
importDeclarationsOf(code) == SelectSeq(code.children, LAMBDA n : n.type = "ImportDeclaration")

\* what C10 says the ImportEntry e of the import declaration d is
importEntryAsClaimed(d, e) ==
  /\ (Len(d.specifiers) = 1 /\ d.specifiers[1].type \in {"ImportDefaultSpecifier", "ImportNamespaceSpecifier"}) =>
       e = [filePath |-> d.source.value, alias |-> d.specifiers[1].local.name, imports |-> <<"*">>]
  /\ (d.specifiers # << >> /\ \A k \in 1..Len(d.specifiers) : d.specifiers[k].type = "ImportSpecifier") =>
       e = [filePath |-> d.source.value, alias |-> "",
            imports |-> [k \in 1..Len(d.specifiers) |-> d.specifiers[k].imported.name]]

\* C10: Import round-trip: a default or namespace import X parses to alias X and imports
\* ["*"], a named import to alias "" and the imported names in source order, each with the
\* specifier as filePath; every import declaration gives one ImportEntry.
ImportRoundTrip ==
  \A m \in parsedInThisCall :
    LET decls == importDeclarationsOf(sourceOf(parsedModules[m]))
        entries == parsedModules[m].importedModules
    IN /\ Len(entries) = Len(decls)
       /\ \A i \in 1..Len(decls) : importEntryAsClaimed(decls[i], entries[i])

\* a default import has been parsed to alias test and imports ["*"]
ImportsParsed ==
  /\ \E m \in 1..Len(parsedModules) : \E i \in 1..Len(parsedModules[m].importedModules) :
       parsedModules[m].importedModules[i] = [filePath |-> <<"lib">>, alias |-> "test", imports |-> <<"*">>]
  /\ importDeclarationsOf(codeCopy)[1].specifiers[1].type = "ImportDefaultSpecifier"

\* the paths of a list of modules
filePathsOf(modules) == [i \in 1..Len(modules) |-> modules[i].filePath]

\* the normalized specifiers of the import declarations of the file at path, in source order
importedPathsOf(path) ==
  LET decls == importDeclarationsOf(sourceOf([filePath |-> path]))
  IN [i \in 1..Len(decls) |-> normalizedPathOf(decls[i].source.value)]

RECURSIVE breadthFirst(_, _)
\* the files reachable over imports, level by level: seen are the paths of the levels so
\* far, level the paths of the last one
breadthFirst(seen, level) ==
  LET imported == Flatten([i \in 1..Len(level) |-> importedPathsOf(level[i])])
      next == Uniq(SelectSeq(imported, LAMBDA path : ~Includes(seen, path)))
  IN IF next = << >> THEN seen ELSE breadthFirst(seen \o next, next)

\* C11: the list parseAll returns on a new InvocationTreeBuilder starts with the
\* entry-point module, with filePath "", and goes on with the imported modules in
\* breadth-first order over the imports, each the parse of its file under its normalized
\* path.
ResolutionOrder ==
  (calls = 1 /\ returned # << >>) =>
    LET modules == returned[1]
    IN /\ filePathsOf(modules) = breadthFirst(<< << >> >>, << << >> >>)
       /\ \A i \in 1..Len(modules) :
            modules[i] = parseScript(sourceOf(modules[i]), modules[i].filePath).value

\* parseAll has returned modules of three levels of imports: a, then b and lib that a
\* imports, then rec that b imports
ThreeLevelsParsed ==
  /\ calls = 1 /\ returned # << >>
  /\ filePathsOf(returned[1]) = << << >>, <<"a">>, <<"b">>, <<"lib">>, <<"rec">> >>

RECURSIVE expressionsIn(_)
\* the call, new and member expressions that occur in the source text of node, those in
\* argument lists and in callbacks too
expressionsIn(node) ==
  LET kids == Children(node)
      inside == UNION {expressionsIn(kids[i]) : i \in 1..Len(kids)}
  IN IF node.type \in {"CallExpression", "NewExpression", "MemberExpression"}
     THEN {node} \cup inside
     ELSE inside

\* the top-level function and class declarations of a script
declarationsOf(code) ==
  LET unwrapped == [i \in 1..Len(code.children) |->
                      IF code.children[i].type = "ExportNamedDeclaration"
                      THEN code.children[i].children[1] ELSE code.children[i]]
  IN SelectSeq(unwrapped, LAMBDA n : n.type \in {"FunctionDeclaration", "ClassDeclaration"})

\* the only calls of the script are bare calls f(...) of functions it declares itself
onlyCallsItsOwnFunctions(code) ==
  LET decls == declarationsOf(code)
      names == {decls[i].id.name : i \in 1..Len(decls)}
  IN /\ code.type = "Program"
     /\ importDeclarationsOf(code) = << >>
     /\ \A e \in expressionsIn(code) :
          e.type = "CallExpression" /\ e.callee.type = "Identifier" /\ e.callee.name \in names

\* C12: a callee that resolves to a declaration is never charged: every cost entry is
\* that of an unresolved function, none that of a resolved one, and a script whose only
\* calls are bare calls of its own functions costs the base cost, whatever the functions
\* are called.
ResolvedNeverCharged ==
  Succeeded =>
    /\ \A i \in 1..Len(result.entries) :
         \E u \in Elements(unresolvedFunctions) : result.entries[i] = costEntry(player, u)
    /\ Len(result.entries) <= Len(Uniq(unresolvedFunctions))
    /\ \A r \in Elements(resolvedFunctions) : r \notin Elements(unresolvedFunctions)
    /\ onlyCallsItsOwnFunctions(codeCopy) =>
         result = [cost |-> Num(ScriptBaseRamCost), entries |-> << >>]

\* main calls the script's own functions hack and purchaseNode, and nothing else; the
\* calculation has returned
OwnHackCalled ==
  /\ Succeeded
  /\ codeCopy = EntryScript(<< >>, "ns", <<Snippet(CallBare("hack", "ns"), <<OwnDecl("hack")>>),
                                           Snippet(CallBare("purchaseNode", "ns"), <<OwnDecl("purchaseNode")>>)>>)
  /\ Len(resolvedFunctions) = 3

\* the DefinedFunctions the traversal can meet: the entry point and every recorded call
allDefinedFunctions ==
  {entryPoint}
  \cup UNION {UNION {Elements(parsedModules[m].functionTree[i].calledFunctions) :
                      i \in 1..Len(parsedModules[m].functionTree)} :
               m \in 1..Len(parsedModules)}

\* the DefinedFunctions that are in neither result list yet
unprocessed ==
  Cardinality(allDefinedFunctions \ (Elements(resolvedFunctions) \cup Elements(unresolvedFunctions)))

\* the largest number of calls recorded for one declaration
maxDependencies ==
  LET counts == UNION {{Len(parsedModules[m].functionTree[i].calledFunctions) :
                          i \in 1..Len(parsedModules[m].functionTree)} :
                       m \in 1..Len(parsedModules)}
  IN IF counts = {} THEN 0 ELSE CHOOSE n \in counts : \A k \in counts : k <= n

\* what the items of a worklist can still put on it: an item that is in a result list
\* already counts with as many dependencies as a declaration can have, because taking
\* it again may put its unprocessed dependencies on the worklist again; an item that is
\* in none counts 1, because taking it makes unprocessed smaller
pendingWork(worklist) ==
  Len(worklist)
  + maxDependencies
    * Len(SelectSeq(worklist, LAMBDA fn : isAlreadyProcessed(fn, resolvedFunctions, unresolvedFunctions)))

\* C13: findAllCalledFunctions terminates, with functions that call themselves, call
\* each other, or call each other across modules that import each other: every iteration
\* of its loop makes the pair (unprocessed, pendingWork of the worklist) smaller in the
\* lexicographic order of pairs of natural numbers, so the loop has no infinite run.
FindTerminates ==
  [][(pc = "findLoop" /\ pc' = "findLoop") =>
       \/ unprocessed' < unprocessed
       \/ unprocessed' = unprocessed /\ pendingWork(toProcess)' < pendingWork(toProcess)]_vars

\* findAllCalledFunctions has returned after following the calls of a and b, which call
\* each other from modules that import each other
CycleAcrossModulesFollowed ==
  /\ FindReturned
  /\ Includes(resolvedFunctions, DefinedFunction("b", << >>, <<"a">>))
  /\ Includes(resolvedFunctions, DefinedFunction("a", << >>, <<"b">>))

\* C14: in the traversal of findAllCalledFunctions a DefinedFunction is put on the
\* worklist at most once: no DefinedFunction is twice among those taken from the
\* worklist (resolvedFunctions and unresolvedFunctions together) and those still on it.
EnqueuedOnce ==
  LET enqueued == resolvedFunctions \o unresolvedFunctions \o toProcess
  IN \A i, j \in 1..Len(enqueued) : enqueued[i] = enqueued[j] => i = j

\* C15: in one parseAll invocation a module is parsed at most once: no two of the
\* modules the call has parsed have the same filePath, at any point of the call, with
\* modules that import each other, a specifier imported by several modules, and a module
\* that imports itself.
ParsedOnce ==
  \A i, j \in parsedInThisCall :
    parsedModules[i].filePath = parsedModules[j].filePath => i = j

\* parseAll has returned for an entry point that imports rec, a module that imports
\* itself: rec is in the list once
SelfImportParsedOnce ==
  /\ calls = 1 /\ returned # << >>
  /\ filePathsOf(returned[1]) = << << >>, <<"rec">> >>
  /\ importedPathsOf(<<"rec">>) = << <<"rec">> >>

\* C16: every ImportEntry of a parsed module has one of two shapes: imports = ["*"] with
\* a non-empty alias, or named bindings with the alias "".
ImportEntryShapes ==
  \A m \in 1..Len(parsedModules) : \A i \in 1..Len(parsedModules[m].importedModules) :
    LET entry == parsedModules[m].importedModules[i]
    IN \/ entry.imports = <<"*">> /\ entry.alias # ""
       \/ entry.alias = "" /\ ~Includes(entry.imports, "*")

\* C17: the filePath of every ImportEntry of the modules of parseAll is the normalized
\* specifier, without a leading "./", and so the filePath of a module of the list.
ImportPathsNormalized ==
  \A m \in 1..Len(parsedModules) : \A i \in 1..Len(parsedModules[m].importedModules) :
    LET entry == parsedModules[m].importedModules[i]
    IN /\ entry.filePath = normalizedPathOf(entry.filePath)
       /\ Len(returned) = calls => alreadyParsed(parsedModules, entry.filePath)

\* the list an earlier parseAll call returned, as it is now: parseAll returns
\* this.#parsedModules itself, so the caller holds the builder's list
earlierList == parsedModules

\* C18: no state is carried across invocations: what a parseAll call returns is what a
\* new InvocationTreeBuilder returns for the call's script and files, also on a builder
\* that has served an earlier call, and the list an earlier call returned is as it was
\* returned.
NoStateAcrossCalls ==
  Len(returned) = calls =>
    /\ returned[calls] = parseAll(codeCopy, otherScripts, remote).value
    /\ \A k \in 1..(calls - 1) : earlierList = returned[k]

\* C19: a special namespace is charged once per calculation: the entries of a calculation
\* hold the fixed cost of a special namespace at most once, however many functions of the
\* namespace the script calls.
SpecialNamespaceOnce ==
  Succeeded =>
    \A i, j \in 1..Len(result.entries) :
      (result.entries[i] \in Elements(specialKeyChecks) /\ result.entries[i] = result.entries[j]) => i = j

\* the edge a call, new or member expression is recorded as
edgeOf(e, filePath) ==
  IF e.type = "MemberExpression" THEN recordFunctionReference(e, filePath)
  ELSE recordFunctionCalls(e, filePath)

\* C20: every call, new and member expression in the body of a top-level function or
\* class declaration, those in argument lists and in callbacks passed as arguments too,
\* is an edge of the declaration's calledFunctions.
AllCallsRecorded ==
  \A m \in parsedInThisCall :
    LET module == parsedModules[m]
        decls == declarationsOf(sourceOf(module))
    IN \A d \in 1..Len(decls) :
         \A e \in expressionsIn(decls[d].body) :
           Includes(module.functionTree[d].calledFunctions, edgeOf(e, module.filePath))

\* the filePath of fn is the filePath of a module of the list
hasModule(modules, fn) == findModule(modules, fn.filePath) # NoNode

\* C21: every DefinedFunction in resolvedFunctions or unresolvedFunctions has the
\* filePath of a module of the list given to findAllCalledFunctions; a worklist item,
\* the entry point too, whose filePath is the filePath of no module is taken from the
\* worklist and recorded in neither list, and no error is thrown for it.
ResultsHaveModules ==
  [][/\ \A fn \in Elements(resolvedFunctions' \o unresolvedFunctions') : hasModule(parsedModules', fn)
     /\ (pc = "findLoop" /\ toProcess # << >> /\ ~hasModule(parsedModules, Head(toProcess))) =>
          /\ toProcess' = Tail(toProcess)
          /\ resolvedFunctions' = resolvedFunctions
          /\ unresolvedFunctions' = unresolvedFunctions
          /\ error' = error
          /\ pc' = "findLoop"]_vars

\* findAllCalledFunctions has returned for an entry point in a file that is no module of
\* the list: both lists are empty and nothing was thrown
EntryPointDropped ==
  /\ pc = "done"
  /\ operation = "findAllCalledFunctions"
  /\ parsedModules # << >>
  /\ ~hasModule(parsedModules, entryPoint)
  /\ resolvedFunctions = << >>
  /\ unresolvedFunctions = << >>
  /\ error = NoError

====
